---- MODULE Spec2Model ----
(***************************************************************************)
(* Model of Timestamps.py: generate_gmt_timestamps(start_year, end_year)   *)
(* and the module-level driver that calls it with its defaults and prints  *)
(* the result.                                                             *)
(*                                                                         *)
(* Python integers are unbounded, the model checker's are 32 bit, and the  *)
(* timestamps of the default range already exceed 2^31.  A number of       *)
(* seconds is therefore held the way datetime.timedelta holds it: as       *)
(* [days, secs] with 0 <= secs < 86400, standing for days*86400 + secs.    *)
(***************************************************************************)
EXTENDS Integers, Sequences, FiniteSets, TLC

(* ---------------- bounds of the model ---------------- *)
YearWindow == 1
MaxSpan == 2
MaxBack == 2

(* ---------------- constants of the program and of datetime ------------- *)
MINYEAR == 1
MAXYEAR == 9999
DefaultStartYear == 2024
DefaultEndYear == 2044
SecondsPerDay == 86400
EpochYear == 1970

\* variants of the date list: December first, and June before March
target_dates_december_first == << <<12, 25>>, <<3, 25>>, <<6, 24>>, <<9, 29>> >>

target_dates_june_first == << <<6, 24>>, <<3, 25>>, <<9, 29>>, <<12, 25>> >>

\* line 6-11: the ordered list of (month, day) pairs
target_dates == << <<3, 25>>, <<6, 24>>, <<9, 29>>, <<12, 25>> >>

\* the month and day of the seed entry, line 16
SeedDate == <<12, 25>>

(* ---------------- calendar arithmetic of datetime ---------------------- *)
\* Python's // and % by a positive divisor are \div and % (both floor).
_is_leap(y) == (y % 4) = 0 /\ ((y % 100) # 0 \/ (y % 400) = 0)

_DAYS_IN_MONTH == <<31, 28, 31, 30, 31, 30, 31, 31, 30, 31, 30, 31>>

_days_in_month(y, m) == IF m = 2 /\ _is_leap(y) THEN 29 ELSE _DAYS_IN_MONTH[m]

_DAYS_BEFORE_MONTH == <<0, 31, 59, 90, 120, 151, 181, 212, 243, 273, 304, 334>>

_days_before_year(y) ==
    LET y1 == y - 1
    IN  y1 * 365 + (y1 \div 4) - (y1 \div 100) + (y1 \div 400)

\* variant: the leap day is forgotten
_days_before_month_no_leap(y, m) == _DAYS_BEFORE_MONTH[m]

_days_before_month(y, m) ==
    _DAYS_BEFORE_MONTH[m] + (IF m > 2 /\ _is_leap(y) THEN 1 ELSE 0)

_ymd2ord(y, m, d) == _days_before_year(y) + _days_before_month(y, m) + d

\* datetime.datetime(y, m, d, ...) raises ValueError unless this holds
_check_date_fields(y, m, d) ==
    /\ MINYEAR <= y /\ y <= MAXYEAR
    /\ 1 <= m /\ m <= 12
    /\ 1 <= d /\ d <= _days_in_month(y, m)

\* variant: a zone one hour east of UTC
OffsetOneHourEast == 60 * 60

\* offset of datetime.timezone.utc from UTC, as a number of seconds
UtcOffsetSeconds == 0

\* datetime.datetime(y, m, d, 0, 0, 0, tzinfo=utc) - _EPOCH, a timedelta:
\* normalised to 0 <= seconds < 86400, 0 <= microseconds < 10^6
AwareMinusEpoch(y, m, d) ==
    LET secs == 0 * 3600 + 0 * 60 + 0 - UtcOffsetSeconds
        days == _ymd2ord(y, m, d) - _ymd2ord(EpochYear, 1, 1)
    IN  [days |-> days + (secs \div SecondsPerDay),
         seconds |-> (secs % SecondsPerDay),
         microseconds |-> 0]

\* int(td.total_seconds()): truncation toward zero of
\* days*86400 + seconds + microseconds/10^6
IntTotalSeconds(td) ==
    LET up == td.days < 0 /\ td.microseconds > 0
        s  == IF up THEN td.seconds + 1 ELSE td.seconds
    IN  IF s = SecondsPerDay
        THEN [days |-> td.days + 1, secs |-> 0]
        ELSE [days |-> td.days, secs |-> s]

\* int(datetime.datetime(y, m, d, 0, 0, 0, tzinfo=utc).timestamp())
Timestamp(y, m, d) == IntTotalSeconds(AwareMinusEpoch(y, m, d))

(* ---------------- a number of seconds back to its UTC date ------------- *)
\* the number of days in 400, 100 and 4 years
_DI400Y == _days_before_year(401)

_DI100Y == _days_before_year(101)

_DI4Y == _days_before_year(5)

\* ordinal -> (year, month, day), considering 01-Jan-0001 as day 1
_ord2ymd(ordinal) ==
    LET n0   == ordinal - 1
        n400 == n0 \div _DI400Y
        r400 == n0 % _DI400Y
        n100 == r400 \div _DI100Y
        r100 == r400 % _DI100Y
        n4   == r100 \div _DI4Y
        r4   == r100 % _DI4Y
        n1   == r4 \div 365
        n    == r4 % 365
        y    == n400 * 400 + 1 + n100 * 100 + n4 * 4 + n1
        leapyear == n1 = 3 /\ (n4 # 24 \/ n100 = 3)
        month0 == (n + 50) \div 32
        preceding0 == _DAYS_BEFORE_MONTH[month0] + (IF month0 > 2 /\ leapyear THEN 1 ELSE 0)
        back == preceding0 > n
        month == IF back THEN month0 - 1 ELSE month0
        preceding == IF back
                     THEN preceding0 - (_DAYS_IN_MONTH[month]
                                        + (IF month = 2 /\ leapyear THEN 1 ELSE 0))
                     ELSE preceding0
    IN  IF n1 = 4 \/ n100 = 4
        THEN [year |-> y - 1, month |-> 12, day |-> 31]
        ELSE [year |-> y, month |-> month, day |-> n - preceding + 1]

\* the UTC calendar date and the second of the day of the timestamp t
UtcDate(t) ==
    LET ymd == _ord2ymd(t.days + _ymd2ord(EpochYear, 1, 1))
    IN  [year |-> ymd.year, month |-> ymd.month, day |-> ymd.day, second |-> t.secs]

(* ---------------- order on numbers of seconds -------------------------- *)
Less(a, b) == a.days < b.days \/ (a.days = b.days /\ a.secs < b.secs)

\* the number n of seconds, |n| < 2^31, in the [days, secs] form
Seconds(n) == [days |-> (n \div SecondsPerDay), secs |-> (n % SecondsPerDay)]

(* ---------------- decimal text, as str() and repr() write it ----------- *)
Digit == <<"0", "1", "2", "3", "4", "5", "6", "7", "8", "9">>

RECURSIVE NatStr(_)
\* str(n) of an int n >= 0
NatStr(n) == IF n < 10 THEN Digit[n + 1] ELSE NatStr(n \div 10) \o Digit[(n % 10) + 1]

\* the three low decimal digits of a number that has higher ones
Pad3(n) == Digit[(n \div 100) + 1] \o Digit[((n \div 10) % 10) + 1] \o Digit[(n % 10) + 1]

\* str of days*86400 + secs for days >= 0, in 32 bit steps: the value is
\* (hi*86400)*1000 + (lo*86400 + secs) with days = hi*1000 + lo
NonNegStr(days, secs) ==
    LET a   == (days \div 1000) * SecondsPerDay
        b   == (days % 1000) * SecondsPerDay + secs
        top == a + (b \div 1000)
    IN  IF top = 0 THEN NatStr(b % 1000) ELSE NatStr(top) \o Pad3(b % 1000)

\* str(t) of an int t held as [days, secs]
IntStr(t) ==
    IF t.days >= 0 THEN NonNegStr(t.days, t.secs)
    ELSE IF t.secs = 0 THEN "-" \o NonNegStr(-t.days, 0)
    ELSE "-" \o NonNegStr(-t.days - 1, SecondsPerDay - t.secs)

RECURSIVE JoinInts(_, _, _)
\* ", ".join(str(x) for x in l[lo..hi]), by halves
JoinInts(l, lo, hi) ==
    IF lo > hi THEN ""
    ELSE IF lo = hi THEN IntStr(l[lo])
    ELSE LET mid == (lo + hi) \div 2
         IN  JoinInts(l, lo, mid) \o ", " \o JoinInts(l, mid + 1, hi)

\* repr of a list of ints, as print(timestamps) writes it
ListRepr(l) == "[" \o JoinInts(l, 1, Len(l)) \o "]"

\* the f-string of line 29
TotalLine(n) == "Total timestamps generated: " \o NatStr(n)

(* ---------------- the arguments a caller may pass ---------------------- *)
YearAnchors == {MINYEAR, EpochYear, DefaultStartYear, MAXYEAR}

StartYears == UNION {(a - YearWindow)..(a + YearWindow) : a \in YearAnchors}

EndYears(s) == (s - MaxBack)..(s + MaxSpan)

(* ---------------- the state ------------------------------------------- *)
VARIABLES
    mpc,              \* where the module's top-level code stands (lines 27-29)
    module_timestamps,\* the module-level name timestamps: <<>> unbound, <<l>> bound to l
    stdout,           \* the lines written to standard output
    fpc,              \* where the running call of generate_gmt_timestamps stands
    caller,           \* who made the running call: "module" or "client"
    start_year,       \* its arguments
    end_year,
    timestamps,       \* its local list
    range_next,       \* the next value of range(start_year + 1, end_year + 1)
    year,             \* its loop variables
    di,               \* the position of the inner loop in target_dates
    results           \* history: how the last two finished calls ended, newest last

vars == <<mpc, module_timestamps, stdout, fpc, caller, start_year, end_year,
          timestamps, range_next, year, di, results>>

frame == <<fpc, caller, start_year, end_year, timestamps, range_next, year, di>>

Init ==
    /\ mpc = "call"
    /\ module_timestamps = <<>>
    /\ stdout = <<>>
    /\ fpc = "idle"
    /\ caller = "none"
    /\ start_year = 0
    /\ end_year = 0
    /\ timestamps = <<>>
    /\ range_next = 0
    /\ year = 0
    /\ di = 0
    /\ results = <<>>

(* ---------------- generate_gmt_timestamps ------------------------------ *)
\* variants of the range of years: without end_year, with start_year, and
\* with the two bounds put in order
YearRangeExclusive(s, e) == [start |-> s + 1, stop |-> e]

YearRangeFromStart(s, e) == [start |-> s, stop |-> e + 1]

YearRangeSorted(s, e) ==
    IF e < s THEN [start |-> e + 1, stop |-> s + 1] ELSE [start |-> s + 1, stop |-> e + 1]

\* line 20: range(start_year + 1, end_year + 1)
YearRange(s, e) == [start |-> s + 1, stop |-> e + 1]

\* variant: list.insert(0, x)
ListPrepend(l, x) == <<x>> \o l

\* list.append
ListAppend(l, x) == Append(l, x)

\* variant: the list outlives the call (one list shared by all calls), so a
\* call starts from what the call before it returned
CallSharedList(who, s, e) ==
    /\ fpc = "idle"
    /\ fpc' = "seed"
    /\ caller' = who
    /\ start_year' = s
    /\ end_year' = e
    /\ timestamps' = IF Len(results) > 0 THEN results[Len(results)].result ELSE <<>>
    /\ range_next' = 0
    /\ year' = 0
    /\ di' = 0

\* lines 4-13: the call binds the arguments and a new empty list
Call(who, s, e) ==
    /\ fpc = "idle"
    /\ fpc' = "seed"
    /\ caller' = who
    /\ start_year' = s
    /\ end_year' = e
    /\ timestamps' = <<>>
    /\ range_next' = 0
    /\ year' = 0
    /\ di' = 0

\* lines 16-17: the seed entry; the date constructor may raise ValueError
Seed ==
    /\ fpc = "seed"
    /\ IF _check_date_fields(start_year, SeedDate[1], SeedDate[2])
       THEN /\ timestamps' = ListAppend(timestamps,
                                 Timestamp(start_year, SeedDate[1], SeedDate[2]))
            /\ range_next' = YearRange(start_year, end_year).start
            /\ fpc' = "for_year"
       ELSE /\ fpc' = "raise"
            /\ UNCHANGED <<timestamps, range_next>>
    /\ UNCHANGED <<mpc, module_timestamps, stdout, caller, start_year, end_year,
                   year, di, results>>

\* line 20: the outer loop takes the next year, or ends
NextYear ==
    /\ fpc = "for_year"
    /\ IF range_next < YearRange(start_year, end_year).stop
       THEN /\ year' = range_next
            /\ range_next' = range_next + 1
            /\ di' = 1
            /\ fpc' = "for_date"
       ELSE /\ fpc' = "return"
            /\ UNCHANGED <<year, range_next, di>>
    /\ UNCHANGED <<mpc, module_timestamps, stdout, caller, start_year, end_year,
                   timestamps, results>>

\* lines 21-23: the inner loop takes the next (month, day), builds the date
\* (which may raise ValueError) and appends its timestamp, or ends
AppendDate ==
    /\ fpc = "for_date"
    /\ IF di <= Len(target_dates)
       THEN LET month == target_dates[di][1]
                day   == target_dates[di][2]
            IN  IF _check_date_fields(year, month, day)
                THEN /\ timestamps' = ListAppend(timestamps, Timestamp(year, month, day))
                     /\ di' = di + 1
                     /\ fpc' = "for_date"
                ELSE /\ fpc' = "raise"
                     /\ UNCHANGED <<timestamps, di>>
       ELSE /\ fpc' = "for_year"
            /\ UNCHANGED <<timestamps, di>>
    /\ UNCHANGED <<mpc, module_timestamps, stdout, caller, start_year, end_year,
                   range_next, year, results>>

\* how a finished call ended: its arguments, its outcome and its list
Outcome(how, l) ==
    [start_year |-> start_year, end_year |-> end_year, outcome |-> how, result |-> l]

\* results keeps the last finished call beside the one that finishes now
Remember(r) == Append(results, r)

Forget == IF Len(results) = 2 THEN <<results[2]>> ELSE results

\* the frame of a finished call is gone
FrameGone ==
    /\ fpc' = "idle"
    /\ caller' = "none"
    /\ start_year' = 0
    /\ end_year' = 0
    /\ timestamps' = <<>>
    /\ range_next' = 0
    /\ year' = 0
    /\ di' = 0

\* line 25, and line 27's assignment when the module made the call
Return ==
    /\ fpc = "return"
    /\ results' = Remember(Outcome("returned", timestamps))
    /\ IF caller = "module"
       THEN /\ module_timestamps' = <<timestamps>>
            /\ mpc' = "print_list"
       ELSE UNCHANGED <<module_timestamps, mpc>>
    /\ FrameGone
    /\ UNCHANGED stdout

\* the ValueError of the date constructor leaves the function; nothing
\* catches it, so at the top level it ends the program
Raise ==
    /\ fpc = "raise"
    /\ results' = Remember(Outcome("ValueError", <<>>))
    /\ IF caller = "module"
       THEN mpc' = "crashed"
       ELSE UNCHANGED mpc
    /\ FrameGone
    /\ UNCHANGED <<module_timestamps, stdout>>

(* ---------------- the module's top-level code -------------------------- *)
\* variant: a line is printed before the call
ModuleCallWithBanner ==
    /\ mpc = "call"
    /\ Call("module", DefaultStartYear, DefaultEndYear)
    /\ mpc' = "in_call"
    /\ stdout' = Append(stdout, "Generating timestamps")
    /\ UNCHANGED <<module_timestamps, results>>

\* line 27: timestamps = generate_gmt_timestamps(), with the defaults of line 4
ModuleCall ==
    /\ mpc = "call"
    /\ Call("module", DefaultStartYear, DefaultEndYear)
    /\ mpc' = "in_call"
    /\ UNCHANGED <<module_timestamps, stdout, results>>

\* line 28: print(timestamps)
PrintList ==
    /\ mpc = "print_list"
    /\ stdout' = Append(stdout, ListRepr(module_timestamps[1]))
    /\ mpc' = "print_total"
    /\ UNCHANGED <<module_timestamps, results, frame>>

\* line 29: print(f"Total timestamps generated: {len(timestamps)}")
PrintTotal ==
    /\ mpc = "print_total"
    /\ stdout' = Append(stdout, TotalLine(Len(module_timestamps[1])))
    /\ mpc' = "loaded"
    /\ UNCHANGED <<module_timestamps, results, frame>>

\* once the module is loaded, its function is called with any arguments
ClientCall ==
    /\ mpc = "loaded"
    /\ \E s \in StartYears : \E e \in EndYears(s) : Call("client", s, e)
    /\ results' = Forget
    /\ UNCHANGED <<mpc, module_timestamps, stdout>>

Next ==
    \/ ModuleCall
    \/ Seed
    \/ NextYear
    \/ AppendDate
    \/ Return
    \/ Raise
    \/ PrintList
    \/ PrintTotal
    \/ ClientCall

Spec == Init /\ [][Next]_vars

TypeOK ==
    /\ mpc \in {"call", "in_call", "print_list", "print_total", "loaded", "crashed"}
    /\ fpc \in {"idle", "seed", "for_year", "for_date", "return", "raise"}
    /\ Len(results) <= 2

(* ======================================================================= *)
(* The claims                                                              *)
(* ======================================================================= *)
\* the calls that have finished, and those that returned a list
Finished == {results[i] : i \in DOMAIN results}

Returned == {r \in Finished : r.outcome = "returned"}

\* the years the date constructor accepts
Accepted(y) == MINYEAR <= y /\ y <= MAXYEAR

IsPrefix(a, b) == Len(a) <= Len(b) /\ SubSeq(b, 1, Len(a)) = a

\* the four dates in the order the claims state them
StatedOrder == << <<3, 25>>, <<6, 24>>, <<9, 29>>, <<12, 25>> >>

StatedDates == {StatedOrder[k] : k \in DOMAIN StatedOrder}

Midnight(y, m, d) == [year |-> y, month |-> m, day |-> d, second |-> 0]

\* C1: for start_year <= end_year, both accepted by the date constructor,
\* the call returns, and returns a list of length 1 + 4 * (end_year - start_year).
C1_Length ==
    \A r \in Finished :
        (Accepted(r.start_year) /\ Accepted(r.end_year) /\ r.start_year <= r.end_year)
        => /\ r.outcome = "returned"
           /\ Len(r.result) = 1 + 4 * (r.end_year - r.start_year)

C1_Witness ==
    \E r \in Returned :
        /\ Accepted(r.end_year)
        /\ r.end_year = r.start_year + MaxSpan
        /\ Len(r.result) = 1 + 4 * MaxSpan

\* C2: the elements of a returned list are strictly increasing: for all
\* positions i < j, result[i] < result[j].
C2_StrictlyIncreasing ==
    \A r \in Returned :
        \A i \in DOMAIN r.result : \A j \in DOMAIN r.result :
            i < j => Less(r.result[i], r.result[j])

C2_Witness ==
    \E r \in Returned :
        /\ Len(r.result) >= 5
        /\ Less(r.result[1], Seconds(0))
        /\ Less(Seconds(0), r.result[5])

\* C3: the first element of a returned list is midnight UTC of December 25
\* of start_year, and no other element has a date in start_year.
C3_SeedFirstAndAlone ==
    \A r \in Returned :
        /\ Len(r.result) >= 1
        /\ UtcDate(r.result[1]) = Midnight(r.start_year, 12, 25)
        /\ \A i \in DOMAIN r.result : i > 1 => UtcDate(r.result[i]).year # r.start_year

C3_Witness ==
    \E r \in Returned :
        /\ Len(r.result) > 1
        /\ r.start_year = DefaultStartYear
        /\ UtcDate(r.result[2]).year = DefaultStartYear + 1

\* C4, as stated: for any end_year < start_year the call raises no exception
\* and returns exactly the one-element list of December 25 of start_year.
C4_AsStated ==
    \A r \in Finished :
        r.end_year < r.start_year
        => /\ r.outcome = "returned"
           /\ Len(r.result) = 1
           /\ UtcDate(r.result[1]) = Midnight(r.start_year, 12, 25)

\* C4, amended: for any end_year < start_year the body of the year loop runs
\* zero times; when start_year is a year the date constructor accepts
\* (1..9999) the call raises no exception and returns exactly the one-element
\* list of December 25 of start_year, and otherwise it raises ValueError.
C4_EmptyRange ==
    /\ (fpc # "idle" /\ end_year < start_year) => (fpc # "for_date" /\ Len(timestamps) <= 1)
    /\ \A r \in Finished :
        r.end_year < r.start_year
        => IF Accepted(r.start_year)
           THEN /\ r.outcome = "returned"
                /\ Len(r.result) = 1
                /\ UtcDate(r.result[1]) = Midnight(r.start_year, 12, 25)
           ELSE r.outcome = "ValueError"

C4_Witness ==
    /\ \E r \in Returned : r.end_year < r.start_year /\ r.start_year = MAXYEAR
    /\ \E r \in Finished : r.end_year < r.start_year /\ r.outcome = "ValueError"

\* C5: generate_gmt_timestamps(2024, 2025) returns exactly
\* [1735084800, 1742860800, 1750723200, 1759104000, 1766620800], and
\* generate_gmt_timestamps(2024, 2024) returns exactly [1735084800].
C5_Examples ==
    \A r \in Finished :
        /\ (r.start_year = 2024 /\ r.end_year = 2025)
           => /\ r.outcome = "returned"
              /\ r.result = <<Seconds(1735084800), Seconds(1742860800),
                              Seconds(1750723200), Seconds(1759104000),
                              Seconds(1766620800)>>
              /\ ListRepr(r.result)
                 = "[1735084800, 1742860800, 1750723200, 1759104000, 1766620800]"
        /\ (r.start_year = 2024 /\ r.end_year = 2024)
           => /\ r.outcome = "returned"
              /\ r.result = <<Seconds(1735084800)>>

C5_Witness ==
    /\ \E r \in Returned : r.start_year = 2024 /\ r.end_year = 2025
    /\ \E r \in Returned : r.start_year = 2024 /\ r.end_year = 2024

\* C6: every element of a returned list is a multiple of 86400 (midnight
\* UTC) whose UTC date has its (month, day) among (3,25), (6,24), (9,29),
\* (12,25).
C6_MidnightOnStatedDates ==
    \A r \in Returned :
        \A i \in DOMAIN r.result :
            /\ r.result[i].secs = 0
            /\ UtcDate(r.result[i]).second = 0
            /\ <<UtcDate(r.result[i]).month, UtcDate(r.result[i]).day>> \in StatedDates

C6_Witness ==
    \E r \in Returned :
        {<<UtcDate(r.result[i]).month, UtcDate(r.result[i]).day>> : i \in DOMAIN r.result}
            = StatedDates

\* C7: two calls with the same arguments end the same way with equal lists,
\* whatever was called before and whatever the module-level timestamps holds.
C7_SameArgumentsSameResult ==
    \A r1 \in Finished : \A r2 \in Finished :
        (r1.start_year = r2.start_year /\ r1.end_year = r2.end_year)
        => (r1.outcome = r2.outcome /\ r1.result = r2.result)

C7_Witness ==
    /\ Len(results) = 2
    /\ results[1] = results[2]
    /\ results[2].outcome = "returned"
    /\ Len(results[2].result) > 1
    /\ Len(module_timestamps) = 1

\* C8: the module calls the generator with start_year = 2024 and
\* end_year = 2044, prints nothing until the call has returned, then prints
\* first the list and second 'Total timestamps generated: N' with N the
\* length of the printed list, 81.  (The printed list is compared with the
\* list when the module has just been loaded, before any later call.)
C8_Driver ==
    /\ mpc # "crashed"
    /\ mpc = "in_call" =>
          (fpc # "idle" => caller = "module" /\ start_year = 2024 /\ end_year = 2044)
    /\ mpc \in {"call", "in_call", "print_list"} => stdout = <<>>
    /\ mpc = "print_total" =>
          /\ Len(stdout) = 1
          /\ stdout[1] = ListRepr(module_timestamps[1])
    /\ mpc = "loaded" =>
          /\ Len(stdout) = 2
          /\ (fpc = "idle" /\ Len(results) = 1) => stdout[1] = ListRepr(module_timestamps[1])
          /\ Len(module_timestamps[1]) = 81
          /\ stdout[2] = "Total timestamps generated: 81"

C8_Witness ==
    /\ mpc = "loaded"
    /\ fpc = "idle"
    /\ Len(stdout) = 2
    /\ Len(results) = 1

\* C9: for start_year <= end_year, every year y in start_year+1..end_year
\* and every k in 0..3, the element at (0-based) index
\* 1 + 4 * (y - start_year - 1) + k of the returned list is midnight UTC of
\* the k-th of the dates (3,25), (6,24), (9,29), (12,25) in year y.
C9_Position ==
    \A r \in Returned :
        \A y \in (r.start_year + 1)..r.end_year : \A k \in 0..3 :
            LET index == 1 + 4 * (y - r.start_year - 1) + k
            IN  /\ index + 1 \in DOMAIN r.result
                /\ UtcDate(r.result[index + 1])
                   = Midnight(y, StatedOrder[k + 1][1], StatedOrder[k + 1][2])

C9_Witness ==
    \E r \in Returned :
        /\ r.end_year >= r.start_year + 2
        /\ UtcDate(r.result[7]) = Midnight(r.start_year + 2, 6, 24)
        /\ r.start_year < EpochYear

\* C10: the list is built append-only: every step of a call leaves the list
\* a prefix of the list after the step, and the list returned is the list
\* as built; and for start_year <= end_year the list returned for
\* (start_year, end_year) is a prefix of the list returned for
\* (start_year, end_year + 1), which has exactly four more elements, all
\* dated in the year end_year + 1.
C10_StepAppends ==
    /\ (fpc # "idle" /\ fpc' # "idle") => IsPrefix(timestamps, timestamps')
    /\ fpc = "return" =>
          /\ results'[Len(results')].result = timestamps
          /\ results'[Len(results')].outcome = "returned"

C10_OneMoreYear ==
    \A r1 \in Returned : \A r2 \in Returned :
        (/\ r1.start_year = r2.start_year
         /\ r1.start_year <= r1.end_year
         /\ r2.end_year = r1.end_year + 1)
        => /\ IsPrefix(r1.result, r2.result)
           /\ Len(r2.result) = Len(r1.result) + 4
           /\ \A i \in (Len(r1.result) + 1)..Len(r2.result) :
                  UtcDate(r2.result[i]).year = r2.end_year

C10_AppendOnly == [][C10_StepAppends]_vars /\ []C10_OneMoreYear

C10_Witness ==
    /\ Len(results) = 2
    /\ results[1].outcome = "returned"
    /\ results[2].outcome = "returned"
    /\ results[1].start_year = results[2].start_year
    /\ results[1].start_year <= results[1].end_year
    /\ results[2].end_year = results[1].end_year + 1

====
